---- MODULE Spec2Model ----
(***************************************************************************)
(* A model of jedi/inference/arguments.py: the call-argument unpacking of  *)
(* TreeArguments, the argument-clinic parser and matcher, the call-site    *)
(* back-tracer get_calling_nodes and the helper try_iter_content.          *)
(*                                                                         *)
(* Each of the five programs has its own specification over its own group  *)
(* of variables; the variables of the other groups stay at their idle      *)
(* values.                                                                 *)
(***************************************************************************)
EXTENDS Integers, Sequences, FiniteSets, TLC

VARIABLES
    \* TreeArguments.unpack
    argument_node,      \* the classified children of the argument list
    funcdef,            \* TRUE when unpack(funcdef) is given a funcdef, FALSE for None
    u_pos,              \* index of the next child of unpack_arglist
    named_args,         \* the buffered keyword pairs
    out,                \* the entries yielded so far
    issues,             \* what analysis.add has been told
    u_pc,
    \* repack_with_argument_clinic and _iterate_argument_clinic
    parameters,         \* clinic_args, the parsed clinic parameters
    stream,             \* what arguments.unpack() yields
    iterator,           \* the PushBackIterator: what is still to be pulled
    c_i,                \* index of the parameter the matcher is at
    c_yielded,          \* the values the matcher has yielded
    c_pc,               \* "iterate", "exhausted", "ParamIssue", "NotImplementedError"
    w_result,           \* what the wrapper did: "pending", "NO_VALUES", "func", "raised"
    func_calls,         \* the appended arguments of each call of the wrapped function
    \* _parse_argument_clinic
    clinic_string,      \* the string the parser was given
    string,             \* what is left of it
    allow_kwargs,
    optional,
    p_yielded,          \* the (name, optional, allow_kwargs, stars) tuples yielded
    p_pc,               \* "loop", "done", "AttributeError"
    \* TreeArguments.get_calling_nodes
    var_args,           \* per Arguments object: what its last starred name leads to
    arguments,
    old_arguments_list,
    provenance,         \* argument_node and trailer as read of the object the walk ended at
    g_result,
    g_pc,               \* "while", "for", "after", "done"
    \* try_iter_content
    py__iter__,         \* per value: "absent", or the value sets its elements infer to
    types,              \* the value set of the first call
    stack,              \* the frames of try_iter_content, the innermost last
    t_pc                \* "running", "done"

uvars == <<argument_node, funcdef, u_pos, named_args, out, issues, u_pc>>
cvars == <<parameters, stream, iterator, c_i, c_yielded, c_pc, w_result, func_calls>>
pvars == <<clinic_string, string, allow_kwargs, optional, p_yielded, p_pc>>
gvars == <<var_args, arguments, old_arguments_list, provenance, g_result, g_pc>>
tvars == <<py__iter__, types, stack, t_pc>>
vars == <<uvars, cvars, pvars, gvars, tvars>>

UnpackFrame == UNCHANGED <<cvars, pvars, gvars, tvars>>
ClinicFrame == UNCHANGED <<uvars, pvars, gvars, tvars>>
ParseFrame == UNCHANGED <<uvars, cvars, gvars, tvars>>
CallingFrame == UNCHANGED <<uvars, cvars, pvars, tvars>>
IterFrame == UNCHANGED <<uvars, cvars, pvars, gvars>>

None == "None"

\* ------------------------------------------------------------------------
\* Bounds
\* ------------------------------------------------------------------------
MaxArgs == 3
MaxStream == 3
MaxParams == 3
MaxPieces == 3
NumArgs == 3
NumVals == 2

\* ------------------------------------------------------------------------
\* Inferred values, as far as arguments.py looks at them
\* ------------------------------------------------------------------------
\* py_iter = -1: the value has no py__iter__ attribute; otherwise the number of
\* lazy values py__iter__() yields.  iter_attr: py__getattribute__('__iter__')
\* is non-empty.  cls: what _star_star_dict's isinstance tests see.
IntValue == [cls |-> "int", iter_attr |-> FALSE, py_iter |-> -1, keys |-> <<>>]
ListValue == [cls |-> "list", iter_attr |-> TRUE, py_iter |-> 2, keys |-> <<>>]
ShortList == [cls |-> "list", iter_attr |-> TRUE, py_iter |-> 1, keys |-> <<>>]
DictValue == [cls |-> "dict", iter_attr |-> TRUE, py_iter |-> 1, keys |-> <<"k">>]
CompiledDict == [cls |-> "compiled_dict", iter_attr |-> TRUE, py_iter |-> 0, keys |-> <<>>]

\* What context.infer_node(el) may return for the expression of a single-star
\* and of a double-star argument: a value set, in its iteration order.
StarTargets ==
    { <<>>, <<IntValue>>, <<ListValue>>, <<IntValue, ListValue>>,
      <<ShortList, ListValue>> }

StarStarTargets ==
    { <<>>, <<IntValue>>, <<DictValue>>, <<CompiledDict>>, <<DictValue, IntValue>> }

KeywordNames == {"a", "b"}

\* One syntactic child of the argument list (commas dropped).
Children ==
    [type : {"plain", "comp"}, name : {None}, arrays : {<<>>}]
    \cup [type : {"keyword"}, name : KeywordNames, arrays : {<<>>}]
    \cup [type : {"star"}, name : {None}, arrays : StarTargets]
    \cup [type : {"starstar"}, name : {None}, arrays : StarStarTargets]

\* Node identities: a child is tagged with its position in the source.
WithIds(cs) == [i \in 1..Len(cs) |-> [el |-> i, node |-> cs[i]]]

ArgLists == UNION { [1..n -> Children] : n \in 0..MaxArgs }

\* ------------------------------------------------------------------------
\* unpack_arglist and the two star helpers
\* ------------------------------------------------------------------------
StarCount(child) ==
    IF child.node.type = "star" THEN 1
    ELSE IF child.node.type = "starstar" THEN 2
    ELSE 0

\* The (star_count, el) pairs unpack_arglist yields.
unpack_arglist(arglist) ==
    [i \in 1..Len(arglist) |-> <<StarCount(arglist[i]), arglist[i]>>]

Max(a, b) == IF a >= b THEN a ELSE b

\* A variant that yields a value for an array without py__iter__.
iterate_star_args_yields_anyway(array) == IF array.py_iter = -1 THEN 1 ELSE array.py_iter

\* The number of lazy values one _iterate_star_args generator yields: none
\* when the array has no py__iter__ (AttributeError: pass).
iterate_star_args_len(array) == IF array.py_iter = -1 THEN 0 ELSE array.py_iter

\* The issues one _iterate_star_args generator reports.
iterate_star_args_issues(array, el, fd) ==
    IF ~array.iter_attr /\ fd
    THEN << [type |-> "type-error-star", node |-> el] >>
    ELSE <<>>

\* The keys of the (key, values) pairs _star_star_dict returns.
star_star_dict(array) ==
    IF array.cls = "compiled_dict" THEN <<>>
    ELSE IF array.cls = "dict" THEN array.keys
    ELSE <<>>

star_star_dict_issues(array, el, fd) ==
    IF array.cls \notin {"compiled_dict", "dict"} /\ fd
    THEN << [type |-> "type-error-star-star", node |-> el] >>
    ELSE <<>>

RECURSIVE Concat(_)
Concat(seqs) == IF seqs = <<>> THEN <<>> ELSE Head(seqs) \o Concat(Tail(seqs))

RECURSIVE MaxOf(_)
MaxOf(ns) == IF ns = <<>> THEN 0 ELSE Max(Head(ns), MaxOf(Tail(ns)))

\* list(zip_longest(*iterators)): one merged entry per position up to the
\* longest iterator; `merged` counts the lazy values that are not None there.
StarEntries(child) ==
    LET arrays == child.node.arrays
        lens == [a \in 1..Len(arrays) |-> iterate_star_args_len(arrays[a])]
    IN  [p \in 1..MaxOf(lens) |->
            [key |-> None, el |-> child.el, idx |-> p,
             merged |-> Cardinality({a \in 1..Len(arrays) : lens[a] >= p})]]

StarIssues(child, fd) ==
    LET arrays == child.node.arrays
    IN  Concat([a \in 1..Len(arrays) |->
                  iterate_star_args_issues(arrays[a], child.el, fd)])

StarStarEntries(child) ==
    LET arrays == child.node.arrays
    IN  Concat([a \in 1..Len(arrays) |->
                  LET ks == star_star_dict(arrays[a])
                  IN  [p \in 1..Len(ks) |->
                         [key |-> ks[p], el |-> child.el, idx |-> p, merged |-> 1]]])

StarStarIssues(child, fd) ==
    LET arrays == child.node.arrays
    IN  Concat([a \in 1..Len(arrays) |->
                  star_star_dict_issues(arrays[a], child.el, fd)])

PlainEntry(child) == [key |-> None, el |-> child.el, idx |-> 0, merged |-> 1]

NamedEntry(child) == [key |-> child.node.name, el |-> child.el, idx |-> 0, merged |-> 1]

\* ------------------------------------------------------------------------
\* TreeArguments.unpack, one action per kind of child
\* ------------------------------------------------------------------------
UnpackIdle ==
    /\ argument_node = <<>>
    /\ funcdef = FALSE
    /\ u_pos = 0
    /\ named_args = <<>>
    /\ out = <<>>
    /\ issues = <<>>
    /\ u_pc = "idle"

UnpackInit ==
    /\ argument_node \in { WithIds(cs) : cs \in ArgLists }
    /\ funcdef \in BOOLEAN
    /\ u_pos = 1
    /\ named_args = <<>>
    /\ out = <<>>
    /\ issues = <<>>
    /\ u_pc = "loop"

Current == unpack_arglist(argument_node)[u_pos]

AtChild(count, kinds) ==
    /\ u_pc = "loop"
    /\ u_pos <= Len(argument_node)
    /\ Current[1] = count
    /\ Current[2].node.type \in kinds

\* star_count == 1
UnpackStar ==
    /\ AtChild(1, {"star"})
    /\ out' = out \o StarEntries(Current[2])
    /\ issues' = issues \o StarIssues(Current[2], funcdef)
    /\ u_pos' = u_pos + 1
    /\ UNCHANGED <<argument_node, funcdef, named_args, u_pc>>
    /\ UnpackFrame

\* star_count == 2
UnpackStarStar ==
    /\ AtChild(2, {"starstar"})
    /\ out' = out \o StarStarEntries(Current[2])
    /\ issues' = issues \o StarStarIssues(Current[2], funcdef)
    /\ u_pos' = u_pos + 1
    /\ UNCHANGED <<argument_node, funcdef, named_args, u_pc>>
    /\ UnpackFrame

\* A variant that yields the keyword pair where it stands.
UnpackKeywordUnbuffered ==
    /\ AtChild(0, {"keyword"})
    /\ out' = Append(out, NamedEntry(Current[2]))
    /\ u_pos' = u_pos + 1
    /\ UNCHANGED <<argument_node, funcdef, named_args, issues, u_pc>>
    /\ UnpackFrame

\* len(c) == 3: the keyword pair is buffered.
UnpackKeyword ==
    /\ AtChild(0, {"keyword"})
    /\ named_args' = Append(named_args, NamedEntry(Current[2]))
    /\ u_pos' = u_pos + 1
    /\ UNCHANGED <<argument_node, funcdef, out, issues, u_pc>>
    /\ UnpackFrame

\* A generator comprehension: one LazyKnownValue.
UnpackComprehension ==
    /\ AtChild(0, {"comp"})
    /\ out' = Append(out, PlainEntry(Current[2]))
    /\ u_pos' = u_pos + 1
    /\ UNCHANGED <<argument_node, funcdef, named_args, issues, u_pc>>
    /\ UnpackFrame

\* Any other node: one LazyTreeValue.
UnpackPlain ==
    /\ AtChild(0, {"plain"})
    /\ out' = Append(out, PlainEntry(Current[2]))
    /\ u_pos' = u_pos + 1
    /\ UNCHANGED <<argument_node, funcdef, named_args, issues, u_pc>>
    /\ UnpackFrame

\* for named_arg in named_args: yield named_arg
UnpackNamed ==
    /\ u_pc = "loop"
    /\ u_pos > Len(argument_node)
    /\ out' = out \o named_args
    /\ u_pc' = "done"
    /\ UNCHANGED <<argument_node, funcdef, u_pos, named_args, issues>>
    /\ UnpackFrame

UnpackNext ==
    \/ UnpackStar
    \/ UnpackStarStar
    \/ UnpackKeyword
    \/ UnpackComprehension
    \/ UnpackPlain
    \/ UnpackNamed

\* unpack as a function of the argument list: what the loop yields from child
\* i on, then the buffered keyword pairs.
RECURSIVE UnpackLoop(_, _)
UnpackLoop(arglist, i) ==
    IF i > Len(arglist) THEN <<>>
    ELSE LET pair == unpack_arglist(arglist)[i]
             here == IF pair[1] = 1 THEN StarEntries(pair[2])
                     ELSE IF pair[1] = 2 THEN StarStarEntries(pair[2])
                     ELSE IF pair[2].node.type = "keyword" THEN <<>>
                     ELSE << PlainEntry(pair[2]) >>
         IN  here \o UnpackLoop(arglist, i + 1)

RECURSIVE UnpackNamedArgs(_, _)
UnpackNamedArgs(arglist, i) ==
    IF i > Len(arglist) THEN <<>>
    ELSE (IF arglist[i].node.type = "keyword" THEN << NamedEntry(arglist[i]) >> ELSE <<>>)
         \o UnpackNamedArgs(arglist, i + 1)

unpack(arglist) == UnpackLoop(arglist, 1) \o UnpackNamedArgs(arglist, 1)

\* The argument list without its i-th child; the other nodes keep their identity.
Remove(arglist, i) ==
    [k \in 1..(Len(arglist) - 1) |-> IF k < i THEN arglist[k] ELSE arglist[k + 1]]

TypeOf(i) == argument_node[i].node.type

OutOf(i) == { p \in DOMAIN out : out[p].el = i }

\* ------------------------------------------------------------------------
\* Claims about unpack
\* ------------------------------------------------------------------------
KeywordBeforeStar(i) ==
    /\ TypeOf(i) = "keyword"
    /\ \E j \in (i + 1)..Len(argument_node) : TypeOf(j) = "star"

\* C1: when unpack has finished, every keyword pair that stands before a
\* single-star expansion is yielded once, under its name, after every entry
\* of a star expansion and every plain positional entry, and two such pairs
\* are yielded in their source order.
C1_KeywordsAfterStarExpansion ==
    u_pc = "done" =>
        \A i \in DOMAIN argument_node :
            KeywordBeforeStar(i) =>
                /\ Cardinality(OutOf(i)) = 1
                /\ \A p \in OutOf(i) :
                      /\ out[p].key = argument_node[i].node.name
                      /\ \A q \in DOMAIN out :
                            TypeOf(out[q].el) \in {"star", "plain", "comp"} => q < p
                      /\ \A i2 \in DOMAIN argument_node :
                            (i < i2 /\ KeywordBeforeStar(i2)) =>
                                \A q \in OutOf(i2) : p < q

C1_Witness ==
    /\ u_pc = "done"
    /\ Len(argument_node) = 3
    /\ KeywordBeforeStar(1)
    /\ KeywordBeforeStar(2)
    /\ Cardinality(OutOf(3)) = 2

\* C2: in the stream unpack yields, no entry with key None comes after an
\* entry with a name as key.
C2_PositionalThenKeyword ==
    \A p, q \in DOMAIN out :
        (p < q /\ out[p].key # None) => out[q].key # None

NotIterable(array) == ~array.iter_attr /\ array.py_iter = -1

\* C3: when unpack has finished, a single-star argument whose expression
\* infers to one value that is not iterable has contributed no entry and
\* exactly one type-error-star issue has been reported for it.
C3_OneIssuePerNonIterableStar ==
    u_pc = "done" =>
        \A i \in DOMAIN argument_node :
            (/\ TypeOf(i) = "star"
             /\ Len(argument_node[i].node.arrays) = 1
             /\ NotIterable(argument_node[i].node.arrays[1])) =>
                /\ OutOf(i) = {}
                /\ Cardinality({ k \in DOMAIN issues :
                        issues[k] = [type |-> "type-error-star", node |-> i] }) = 1

\* A star argument whose target is malformed: every inferred value of a
\* single-star target is not iterable, or no inferred value of a double-star
\* target is a mapping.
Malformed(i) ==
    LET arrays == argument_node[i].node.arrays
    IN  /\ TypeOf(i) \in {"star", "starstar"}
        /\ arrays # <<>>
        /\ \A a \in DOMAIN arrays :
              IF TypeOf(i) = "star" THEN NotIterable(arrays[a])
              ELSE arrays[a].cls \notin {"dict", "compiled_dict"}

\* C4: unpack always runs on to its end, and when it has finished, a
\* malformed star argument has contributed no entry and the stream is the one
\* unpack yields for the argument list without that argument.
C4_MalformedStarContributesNothing ==
    /\ u_pc = "loop" => ENABLED UnpackNext
    /\ u_pc = "done" =>
          \A i \in DOMAIN argument_node :
              Malformed(i) =>
                  /\ OutOf(i) = {}
                  /\ out = unpack(Remove(argument_node, i))

C4_Witness ==
    /\ u_pc = "done"
    /\ \E i, j \in DOMAIN argument_node :
          /\ TypeOf(i) = "star" /\ Malformed(i)
          /\ TypeOf(j) = "starstar" /\ Malformed(j)
    /\ out # <<>>

\* ------------------------------------------------------------------------
\* The argument-clinic matcher and the wrapper around it
\* ------------------------------------------------------------------------
\* An entry of the unpacked stream: its key, and whether argument.infer()
\* gives the empty value set.  pos tells the entries apart.
StreamEntries == [key : {None, "k"}, empty : BOOLEAN]

Streams ==
    { [i \in 1..Len(es) |-> [pos |-> i, key |-> es[i].key, empty |-> es[i].empty]] :
        es \in UNION { [1..n -> StreamEntries] : n \in 0..MaxStream } }

\* A clinic parameter (name, optional, allow_kwargs, stars): the matcher reads
\* optional and stars only.  optional is sticky in what the parser produces.
ClinicParams == [optional : BOOLEAN, stars : 0..2]

ParameterLists ==
    { ps \in UNION { [1..n -> ClinicParams] : n \in 0..MaxParams } :
        \A i, j \in DOMAIN ps : (i < j /\ ps[i].optional) => ps[j].optional }

ClinicIdle ==
    /\ parameters = <<>>
    /\ stream = <<>>
    /\ iterator = <<>>
    /\ c_i = 0
    /\ c_yielded = <<>>
    /\ c_pc = "idle"
    /\ w_result = "idle"
    /\ func_calls = <<>>

ClinicInit ==
    /\ parameters \in ParameterLists
    /\ stream \in Streams
    /\ iterator = stream
    /\ c_i = 1
    /\ c_yielded = <<>>
    /\ c_pc = "iterate"
    /\ w_result = "pending"
    /\ func_calls = <<>>

AtParam(stars) ==
    /\ c_pc = "iterate"
    /\ c_i <= Len(parameters)
    /\ parameters[c_i].stars = stars

\* The length of the longest prefix of unnamed entries.
RECURSIVE UnnamedPrefix(_)
UnnamedPrefix(it) ==
    IF it = <<>> \/ Head(it).key # None THEN 0 ELSE 1 + UnnamedPrefix(Tail(it))

\* stars == 1: collect the unnamed entries up to the first keyed one, which is
\* pushed back, and yield one tuple.
ClinicStar ==
    /\ AtParam(1)
    /\ LET n == UnnamedPrefix(iterator)
       IN  /\ c_yielded' = Append(c_yielded,
                   [param |-> c_i, kind |-> "tuple",
                    items |-> [k \in 1..n |-> iterator[k].pos], empty |-> FALSE])
           /\ iterator' = SubSeq(iterator, n + 1, Len(iterator))
    /\ c_i' = c_i + 1
    /\ UNCHANGED <<parameters, stream, c_pc, w_result, func_calls>>
    /\ ClinicFrame

\* stars == 2: raise NotImplementedError()
ClinicStarStar ==
    /\ AtParam(2)
    /\ c_pc' = "NotImplementedError"
    /\ UNCHANGED <<parameters, stream, iterator, c_i, c_yielded, w_result, func_calls>>
    /\ ClinicFrame

\* What the body below `key, argument = next(iterator, (None, None))` does
\* with the entry pulled (NoEntry when the iterator is exhausted).
NoEntry == [pos |-> 0, key |-> None, empty |-> TRUE]

\* A variant that raises for optional parameters too.
PlainRaisesOptionalIgnored(entry, is_optional) ==
    \/ entry.key # None
    \/ entry.pos = 0
    \/ entry.empty

\* Whether the body raises ParamIssue.
PlainRaises(entry, is_optional) ==
    \/ entry.key # None
    \/ (entry.pos = 0 /\ ~is_optional)
    \/ (entry.empty /\ ~is_optional)

ClinicPlain ==
    /\ AtParam(0)
    /\ LET entry == IF iterator = <<>> THEN NoEntry ELSE Head(iterator)
       IN  /\ iterator' = IF iterator = <<>> THEN <<>> ELSE Tail(iterator)
           /\ IF PlainRaises(entry, parameters[c_i].optional)
              THEN /\ c_pc' = "ParamIssue"
                   /\ UNCHANGED <<c_i, c_yielded>>
              ELSE /\ c_yielded' = Append(c_yielded,
                           [param |-> c_i, kind |-> "value_set",
                            items |-> IF entry.pos = 0 THEN <<>> ELSE <<entry.pos>>,
                            empty |-> entry.empty])
                   /\ c_i' = c_i + 1
                   /\ UNCHANGED c_pc
    /\ UNCHANGED <<parameters, stream, w_result, func_calls>>
    /\ ClinicFrame

\* The parameters are used up: the generator ends.
ClinicExhausted ==
    /\ c_pc = "iterate"
    /\ c_i > Len(parameters)
    /\ c_pc' = "exhausted"
    /\ UNCHANGED <<parameters, stream, iterator, c_i, c_yielded, w_result, func_calls>>
    /\ ClinicFrame

\* A variant whose except clause goes on to call the function.
WrapperExceptCallsAnyway ==
    /\ c_pc = "ParamIssue"
    /\ w_result = "pending"
    /\ w_result' = "func"
    /\ func_calls' = Append(func_calls, c_yielded)
    /\ UNCHANGED <<parameters, stream, iterator, c_i, c_yielded, c_pc>>
    /\ ClinicFrame

\* except ParamIssue: return NO_VALUES
WrapperExcept ==
    /\ c_pc = "ParamIssue"
    /\ w_result = "pending"
    /\ w_result' = "NO_VALUES"
    /\ UNCHANGED <<parameters, stream, iterator, c_i, c_yielded, c_pc, func_calls>>
    /\ ClinicFrame

\* else: return func(context, *args, **kwargs)
WrapperElse ==
    /\ c_pc = "exhausted"
    /\ w_result = "pending"
    /\ w_result' = "func"
    /\ func_calls' = Append(func_calls, c_yielded)
    /\ UNCHANGED <<parameters, stream, iterator, c_i, c_yielded, c_pc>>
    /\ ClinicFrame

\* NotImplementedError is no ParamIssue: it leaves the wrapper.
WrapperPropagate ==
    /\ c_pc = "NotImplementedError"
    /\ w_result = "pending"
    /\ w_result' = "raised"
    /\ UNCHANGED <<parameters, stream, iterator, c_i, c_yielded, c_pc, func_calls>>
    /\ ClinicFrame

ClinicNext ==
    \/ ClinicStar
    \/ ClinicStarStar
    \/ ClinicPlain
    \/ ClinicExhausted
    \/ WrapperExcept
    \/ WrapperElse
    \/ WrapperPropagate

\* ------------------------------------------------------------------------
\* Claims about the clinic matcher
\* ------------------------------------------------------------------------
NoStarredParameter == \A i \in DOMAIN parameters : parameters[i].stars = 0

Unnamed == { k \in DOMAIN stream : stream[k].key = None }

SurplusPositional ==
    /\ NoStarredParameter
    /\ Cardinality(Unnamed) > Len(parameters)

\* C5 as stated: matching a parameter list with no starred parameter against
\* a stream with more unnamed entries than parameters raises ParamIssue, so
\* the wrapper returns the empty result.
C5_SurplusPositionalRaises ==
    (w_result # "pending" /\ SurplusPositional) =>
        (c_pc = "ParamIssue" /\ w_result = "NO_VALUES")

\* One of the first len(parameters) entries makes the matcher raise.
RaisesWithin ==
    \E i \in DOMAIN parameters :
        /\ i <= Len(stream)
        /\ \/ stream[i].key # None
           \/ (stream[i].empty /\ ~parameters[i].optional)

\* C5 as amended: with no starred parameter and more unnamed entries than
\* parameters, ParamIssue is raised exactly when one of the first
\* len(parameters) entries is keyed or infers to nothing for a parameter that
\* is not optional; otherwise the surplus entries are left in the iterator
\* and the function is called with one value per parameter.
C5_SurplusPositionalIgnored ==
    (w_result # "pending" /\ SurplusPositional) =>
        /\ (c_pc = "ParamIssue") <=> RaisesWithin
        /\ (w_result = "NO_VALUES") <=> RaisesWithin
        /\ ~RaisesWithin =>
              /\ w_result = "func"
              /\ iterator = SubSeq(stream, Len(parameters) + 1, Len(stream))
              /\ func_calls =
                    << [i \in DOMAIN parameters |->
                          [param |-> i, kind |-> "value_set",
                           items |-> <<i>>, empty |-> stream[i].empty]] >>

C5_Witness ==
    /\ SurplusPositional
    /\ Len(parameters) = 2
    /\ Len(stream) = 3
    /\ Unnamed = DOMAIN stream
    /\ w_result = "func"
    /\ iterator # <<>>

\* C6: a ParamIssue never leaves the wrapper: the wrapper then returns
\* NO_VALUES without calling the function; and when the matcher runs to its
\* end, the function is called once, with one value per clinic parameter, in
\* parameter order.
C6_ParamIssueCaughtAtWrapper ==
    /\ c_pc = "ParamIssue" =>
          /\ w_result \in {"pending", "NO_VALUES"}
          /\ func_calls = <<>>
          /\ w_result = "pending" => ENABLED WrapperExcept
    /\ (c_pc = "exhausted" /\ w_result # "pending") =>
          /\ w_result = "func"
          /\ Len(func_calls) = 1
          /\ Len(func_calls[1]) = Len(parameters)
          /\ \A i \in DOMAIN parameters : func_calls[1][i].param = i
    /\ w_result = "func" => c_pc = "exhausted"
    /\ w_result = "NO_VALUES" => c_pc = "ParamIssue"

C6_Witness ==
    /\ c_pc = "ParamIssue"
    /\ w_result = "NO_VALUES"
    /\ c_yielded # <<>>
    /\ \E i \in DOMAIN parameters : parameters[i].stars = 1

\* ------------------------------------------------------------------------
\* _parse_argument_clinic
\* ------------------------------------------------------------------------
\* Strings are sequences of characters.  \w of the regular expression:
WordChars == {"s", "e", "l", "f", "x", "y"}

\* "$self, /, x, *, y"
SpecExample ==
    << "$", "s", "e", "l", "f", ",", " ", "/", ",", " ", "x", ",", " ", "*",
       ",", " ", "y" >>

\* The strings the parser is given: up to MaxPieces pieces, each a separator
\* or an opening bracket, then a name, a starred name, a slash, a bare star or
\* a $-name, then possibly a closing bracket; and the example above.
PiecePrefixes == { <<>>, <<",", " ">>, <<"[", ",", " ">>, <<"[">> }
PieceBodies == { <<"x">>, <<"*", "x">>, <<"*", "*", "x">>, <<"/">>, <<"*">>, <<"$", "s">> }
PieceSuffixes == { <<>>, <<"]">> }
Pieces == { a \o b \o c : a \in PiecePrefixes, b \in PieceBodies, c \in PieceSuffixes }

ClinicStrings ==
    { Concat(ps) : ps \in UNION { [1..n -> Pieces] : n \in 0..MaxPieces } }
    \cup { SpecExample }

\* The number of characters of s from position j on that lie in set.
RECURSIVE CountWhile(_, _, _)
CountWhile(s, j, set) ==
    IF j > Len(s) \/ s[j] \notin set THEN 0 ELSE 1 + CountWhile(s, j + 1, set)

NoMatch == [matched |-> FALSE, len |-> 0, group1 |-> FALSE, group2 |-> <<>>]

\* (\**\w+)\]* from position j on, after a prefix that set group 1 or not.
MatchWord(s, j, bracket) ==
    LET k == CountWhile(s, j, {"*"})
        m == CountWhile(s, j + k, WordChars)
        q == CountWhile(s, j + k + m, {"]"})
    IN  IF m = 0 THEN NoMatch
        ELSE [matched |-> TRUE, len |-> j - 1 + k + m + q, group1 |-> bracket,
              group2 |-> SubSeq(s, j, j + k + m - 1)]

Opt(s, j, ch) == IF j <= Len(s) /\ s[j] = ch THEN 1 ELSE 0

\* re.match(r'(?:(?:(\[),? ?|, ?|)(\**\w+)|, ?/)\]*', string): the three
\* prefixes of the word alternative begin with different characters, and a
\* word begins with none of them, so at most one way of matching exists.
Match(s) ==
    IF s # <<>> /\ s[1] = "["
    THEN LET c == Opt(s, 2, ",")
             b == Opt(s, 2 + c, " ")
         IN  MatchWord(s, 2 + c + b, TRUE)
    ELSE IF s # <<>> /\ s[1] = ","
    THEN LET b == Opt(s, 2, " ")
             w == MatchWord(s, 2 + b, FALSE)
         IN  IF w.matched THEN w
             ELSE IF Opt(s, 2 + b, "/") = 1
             THEN [matched |-> TRUE,
                   len |-> 2 + b + CountWhile(s, 3 + b, {"]"}),
                   group1 |-> FALSE, group2 |-> <<>>]
             ELSE NoMatch
    ELSE MatchWord(s, 1, FALSE)

Drop(s, n) == SubSeq(s, n + 1, Len(s))

ParseIdle ==
    /\ clinic_string = <<>>
    /\ string = <<>>
    /\ allow_kwargs = FALSE
    /\ optional = FALSE
    /\ p_yielded = <<>>
    /\ p_pc = "idle"

ParseInit ==
    /\ clinic_string \in ClinicStrings
    /\ string = clinic_string
    /\ allow_kwargs = FALSE
    /\ optional = FALSE
    /\ p_yielded = <<>>
    /\ p_pc = "loop"

\* match is None: match.group(0) raises AttributeError.
ParseNoMatch ==
    /\ p_pc = "loop"
    /\ string # <<>>
    /\ ~Match(string).matched
    /\ p_pc' = "AttributeError"
    /\ UNCHANGED <<clinic_string, string, allow_kwargs, optional, p_yielded>>
    /\ ParseFrame

\* not match.group(2): a slash
ParseSlash ==
    /\ p_pc = "loop"
    /\ string # <<>>
    /\ Match(string).matched
    /\ Match(string).group2 = <<>>
    /\ string' = Drop(string, Match(string).len)
    /\ allow_kwargs' = TRUE
    /\ UNCHANGED <<clinic_string, optional, p_yielded, p_pc>>
    /\ ParseFrame

ParseWord ==
    /\ p_pc = "loop"
    /\ string # <<>>
    /\ Match(string).matched
    /\ Match(string).group2 # <<>>
    /\ LET m == Match(string)
           stars == CountWhile(m.group2, 1, {"*"})
       IN  /\ string' = Drop(string, m.len)
           /\ optional' = (optional \/ m.group1)
           /\ p_yielded' = Append(p_yielded,
                 [word |-> Drop(m.group2, stars), optional |-> optional',
                  allow_kwargs |-> allow_kwargs, stars |-> stars])
           /\ allow_kwargs' = (IF stars > 0 THEN TRUE ELSE allow_kwargs)
    /\ UNCHANGED <<clinic_string, p_pc>>
    /\ ParseFrame

\* while string: the string is used up.
ParseDone ==
    /\ p_pc = "loop"
    /\ string = <<>>
    /\ p_pc' = "done"
    /\ UNCHANGED <<clinic_string, string, allow_kwargs, optional, p_yielded>>
    /\ ParseFrame

ParseNext ==
    \/ ParseNoMatch
    \/ ParseSlash
    \/ ParseWord
    \/ ParseDone

\* ------------------------------------------------------------------------
\* Claims about the clinic parser
\* ------------------------------------------------------------------------
\* C7: parsing a clinic string ends with a parameter sequence, not with an
\* error; neither flag goes from true back to false along the sequence; and
\* the parameters x and y of "$self, /, x, *, y" are both keyword-allowed.
C7_ParseEndsWithStickyFlags ==
    /\ (clinic_string = SpecExample) => p_pc # "AttributeError"
    /\ \A i, j \in DOMAIN p_yielded :
          i < j =>
              /\ p_yielded[i].optional => p_yielded[j].optional
              /\ p_yielded[i].allow_kwargs => p_yielded[j].allow_kwargs
              /\ p_yielded[i].stars > 0 => p_yielded[j].allow_kwargs
    /\ (p_pc = "done" /\ clinic_string = SpecExample) =>
          \A i \in DOMAIN p_yielded :
              p_yielded[i].word \in {<<"x">>, <<"y">>} => p_yielded[i].allow_kwargs

\* ------------------------------------------------------------------------
\* TreeArguments.get_calling_nodes
\* ------------------------------------------------------------------------
ArgIds == 1..NumArgs

\* The Arguments object get_calling_nodes is called on.
Self == 1

\* What the walk finds at an Arguments object.  "NotTree": it is no
\* TreeArguments.  Otherwise, for the last starred calling name: "NoStarName"
\* (there is none), "Ambiguous" (goto() gives not exactly one name),
\* "NotParam" (the name is no ParamName), "Dynamic" (the param is a
\* DynamicExecutedParams), "NoVarArgs" (param.var_args is None), "Forward"
\* (param.var_args is the Arguments object target).
Links ==
    [kind : {"NotTree", "NoStarName", "Ambiguous", "NotParam", "Dynamic", "NoVarArgs"},
     target : {0}]
    \cup [kind : {"Forward"}, target : ArgIds]

\* What lines 302-305 read of the object the walk ended at, the only object
\* whose nodes are read.  "argument_node": argument_node is not None;
\* "trailer": argument_node is None and trailer is not; "none": both are None.
Provenances == {"argument_node", "trailer", "none"}

CallingIdle ==
    /\ var_args = <<>>
    /\ arguments = 0
    /\ old_arguments_list = <<>>
    /\ provenance = "unread"
    /\ g_result = <<>>
    /\ g_pc = "idle"

CallingInit ==
    /\ var_args \in [ArgIds -> Links]
    /\ var_args[Self].kind # "NotTree"
    /\ provenance = "unread"
    /\ arguments = Self
    /\ old_arguments_list = <<>>
    /\ g_result = <<>>
    /\ g_pc = "while"

Contains(list, a) == \E k \in DOMAIN list : list[k] = a

\* A variant that does not record the object.
VisitForgotten(list, a) == list

\* old_arguments_list.append(arguments)

Visit(list, a) == Append(list, a)

\* while arguments not in old_arguments_list: the object was seen before.
CallingRevisit ==
    /\ g_pc = "while"
    /\ Contains(old_arguments_list, arguments)
    /\ g_pc' = "after"
    /\ UNCHANGED <<var_args, arguments, old_arguments_list, provenance, g_result>>
    /\ CallingFrame

InWhile(kinds) ==
    /\ g_pc = "while"
    /\ ~Contains(old_arguments_list, arguments)
    /\ var_args[arguments].kind \in kinds

\* if not isinstance(arguments, TreeArguments): break
CallingNotTree ==
    /\ InWhile({"NotTree"})
    /\ g_pc' = "after"
    /\ UNCHANGED <<var_args, arguments, old_arguments_list, provenance, g_result>>
    /\ CallingFrame

\* No starred calling name: the for loop has nothing to do.
CallingNoStarName ==
    /\ InWhile({"NoStarName"})
    /\ old_arguments_list' = Visit(old_arguments_list, arguments)
    /\ UNCHANGED <<var_args, arguments, provenance, g_result, g_pc>>
    /\ CallingFrame

\* The three breaks that leave arguments as it is.
CallingBreak ==
    /\ InWhile({"Ambiguous", "NotParam", "NoVarArgs"})
    /\ old_arguments_list' = Visit(old_arguments_list, arguments)
    /\ UNCHANGED <<var_args, arguments, provenance, g_result, g_pc>>
    /\ CallingFrame

\* isinstance(param, DynamicExecutedParams): return []
CallingDynamic ==
    /\ InWhile({"Dynamic"})
    /\ old_arguments_list' = Visit(old_arguments_list, arguments)
    /\ g_result' = <<>>
    /\ g_pc' = "done"
    /\ UNCHANGED <<var_args, arguments, provenance>>
    /\ CallingFrame

\* A variant that breaks without following var_args.
CallingForwardStays ==
    /\ InWhile({"Forward"})
    /\ old_arguments_list' = Visit(old_arguments_list, arguments)
    /\ UNCHANGED <<var_args, arguments, provenance, g_result, g_pc>>
    /\ CallingFrame

\* arguments = param.var_args; break
CallingForward ==
    /\ InWhile({"Forward"})
    /\ old_arguments_list' = Visit(old_arguments_list, arguments)
    /\ arguments' = var_args[arguments].target
    /\ UNCHANGED <<var_args, provenance, g_result, g_pc>>
    /\ CallingFrame

\* The ContextualizedNode list of an Arguments object whose nodes are p.
CallingNode(a, p) ==
    IF p = "argument_node" THEN << [context |-> a, node |-> "argument_node"] >>
    ELSE IF p = "trailer" THEN << [context |-> a, node |-> "trailer"] >>
    ELSE <<>>

CallingReturn ==
    /\ g_pc = "after"
    /\ \E p \in Provenances :
          /\ provenance' = p
          /\ g_result' = CallingNode(arguments, p)
    /\ g_pc' = "done"
    /\ UNCHANGED <<var_args, arguments, old_arguments_list>>
    /\ CallingFrame

CallingNext ==
    \/ CallingRevisit
    \/ CallingNotTree
    \/ CallingNoStarName
    \/ CallingBreak
    \/ CallingDynamic
    \/ CallingForward
    \/ CallingReturn

\* ------------------------------------------------------------------------
\* Claims about get_calling_nodes
\* ------------------------------------------------------------------------
\* The chains A1, ..., An of distinct Arguments objects from Self on, each
\* forwarding to the next, the last one with no further source.
Chains ==
    { c \in UNION { [1..n -> ArgIds] : n \in 1..NumArgs } :
        /\ c[1] = Self
        /\ \A i, j \in DOMAIN c : i # j => c[i] # c[j]
        /\ \A i \in 1..(Len(c) - 1) :
              var_args[c[i]] = [kind |-> "Forward", target |-> c[i + 1]]
        /\ var_args[c[Len(c)]].kind
              \in {"NotTree", "NoStarName", "Ambiguous", "NotParam", "NoVarArgs"} }

\* C8: when get_calling_nodes has returned on a chain of forwarded call
\* sites, the walk has stopped at the last one, An, and the result is exactly
\* An's provenance node with An's context: its argument list node, or else
\* its trailer, and the empty list only when An has neither.
C8_ChainReturnsHeadCallSite ==
    g_pc = "done" =>
        \A c \in Chains :
            LET An == c[Len(c)]
            IN  /\ arguments = An
                /\ old_arguments_list = c \/ old_arguments_list = SubSeq(c, 1, Len(c) - 1)
                /\ provenance \in Provenances
                /\ g_result = IF provenance = "none" THEN <<>>
                              ELSE << [context |-> An, node |-> provenance] >>
                /\ (g_result = <<>>) <=> (provenance = "none")

C8_Witness ==
    /\ g_pc = "done"
    /\ \E c \in Chains : Len(c) = 3 /\ arguments = c[3]
    /\ provenance = "trailer"
    /\ Len(g_result) = 1

NoDuplicates(list) == \A i, j \in DOMAIN list : i # j => list[i] # list[j]

\* C9: get_calling_nodes visits no Arguments object twice, so the loop body
\* runs at most once per object; it never gets stuck, it ends, and what it
\* returns is a list of at most one node.
C9_CallingNodesTerminates ==
    /\ [](/\ NoDuplicates(old_arguments_list)
          /\ Len(old_arguments_list) <= NumArgs
          /\ g_pc # "done" => ENABLED CallingNext
          /\ g_pc = "done" =>
                \/ g_result = <<>>
                \/ g_result \in { CallingNode(a, p) : a \in ArgIds, p \in Provenances })
    /\ <>(g_pc = "done")

C9_Witness ==
    /\ g_pc = "done"
    /\ Len(old_arguments_list) = NumArgs
    /\ var_args[old_arguments_list[NumArgs]] = [kind |-> "Forward", target |-> Self]
    /\ arguments = Self
    /\ Len(g_result) = 1

\* ------------------------------------------------------------------------
\* try_iter_content
\* ------------------------------------------------------------------------
Vals == 1..NumVals

DepthCeiling == 10

\* What lazy_value.infer() gives for an element: no value or one value.
InferredSets == { {} } \cup { {v} : v \in Vals }

\* typ.py__iter__: not there (AttributeError), or there with the elements f()
\* yields, each given by what it infers to.
IterContents ==
    { [present |-> FALSE, elems |-> <<>>], [present |-> TRUE, elems |-> <<>>] }
    \cup { [present |-> TRUE, elems |-> <<s>>] : s \in InferredSets }

Frame(depth, ts) == [depth |-> depth, phase |-> "enter", types |-> ts, lazy |-> <<>>]

IterIdle ==
    /\ py__iter__ = <<>>
    /\ types = {}
    /\ stack = <<>>
    /\ t_pc = "idle"

IterInit ==
    /\ py__iter__ \in [Vals -> IterContents]
    /\ types \in SUBSET Vals
    /\ stack = << Frame(0, types) >>
    /\ t_pc = "running"

Top == stack[Len(stack)]

SetTop(f) == [stack EXCEPT ![Len(stack)] = f]

Pop == SubSeq(stack, 1, Len(stack) - 1)

\* A variant that stops one call later.
TooDeepOffByOne(depth) == depth > DepthCeiling + 1

\* if depth > 10

TooDeep(depth) == depth > DepthCeiling

\* The frame returns: to its caller, or out of the first call.
Return ==
    /\ stack' = Pop
    /\ t_pc' = IF Len(stack) = 1 THEN "done" ELSE "running"

\* if depth > 10: return
TryIterTooDeep ==
    /\ t_pc = "running"
    /\ Top.phase = "enter"
    /\ TooDeep(Top.depth)
    /\ Return
    /\ UNCHANGED <<py__iter__, types>>
    /\ IterFrame

TryIterEnter ==
    /\ t_pc = "running"
    /\ Top.phase = "enter"
    /\ ~TooDeep(Top.depth)
    /\ stack' = SetTop([Top EXCEPT !.phase = "loop"])
    /\ UNCHANGED <<py__iter__, types, t_pc>>
    /\ IterFrame

\* for typ in types: typ has no py__iter__ (AttributeError: pass)
TryIterNoIter ==
    /\ t_pc = "running"
    /\ Top.phase = "loop"
    /\ Top.lazy = <<>>
    /\ \E typ \in Top.types :
          /\ ~py__iter__[typ].present
          /\ stack' = SetTop([Top EXCEPT !.types = @ \ {typ}])
    /\ UNCHANGED <<py__iter__, types, t_pc>>
    /\ IterFrame

\* for typ in types: f = typ.py__iter__, and f() is called
TryIterIterate ==
    /\ t_pc = "running"
    /\ Top.phase = "loop"
    /\ Top.lazy = <<>>
    /\ \E typ \in Top.types :
          /\ py__iter__[typ].present
          /\ stack' = SetTop([Top EXCEPT !.types = @ \ {typ},
                                         !.lazy = py__iter__[typ].elems])
    /\ UNCHANGED <<py__iter__, types, t_pc>>
    /\ IterFrame

\* for lazy_value in f(): try_iter_content(lazy_value.infer(), depth + 1)
TryIterDescend ==
    /\ t_pc = "running"
    /\ Top.phase = "loop"
    /\ Top.lazy # <<>>
    /\ stack' = Append(SetTop([Top EXCEPT !.lazy = Tail(@)]),
                       Frame(Top.depth + 1, Head(Top.lazy)))
    /\ UNCHANGED <<py__iter__, types, t_pc>>
    /\ IterFrame

\* Both loops are through.
TryIterReturn ==
    /\ t_pc = "running"
    /\ Top.phase = "loop"
    /\ Top.lazy = <<>>
    /\ Top.types = {}
    /\ Return
    /\ UNCHANGED <<py__iter__, types>>
    /\ IterFrame

IterNext ==
    \/ TryIterTooDeep
    \/ TryIterEnter
    \/ TryIterNoIter
    \/ TryIterIterate
    \/ TryIterDescend
    \/ TryIterReturn

\* ------------------------------------------------------------------------
\* Claims about try_iter_content
\* ------------------------------------------------------------------------
\* The recursive calls nested in the first call: every frame but the first.
NestedCalls == Len(stack) - 1

\* C10 as stated: try_iter_content never makes more than 10 nested recursive
\* descents from the first call.
C10_AtMostTenDescents == NestedCalls <= DepthCeiling

\* C10 as amended: try_iter_content ends on every value set; it never makes
\* more than 11 nested recursive calls from the first call, the call at depth
\* 11 returns at once, only calls at depth 10 or less iterate their values,
\* and it never gets stuck on the way.
C10_AtMostElevenCallsAndEnds ==
    /\ [](/\ NestedCalls <= DepthCeiling + 1
          /\ \A k \in DOMAIN stack :
                /\ stack[k].depth = k - 1
                /\ stack[k].phase = "loop" => stack[k].depth <= DepthCeiling
          /\ t_pc = "running" => ENABLED IterNext)
    /\ <>(t_pc = "done")

C10_Witness ==
    /\ t_pc = "running"
    /\ NestedCalls = DepthCeiling + 1
    /\ \E v \in Vals : py__iter__[v] = [present |-> TRUE, elems |-> << {v} >>] /\ types = {v}

\* ------------------------------------------------------------------------
\* The specifications, one per program
\* ------------------------------------------------------------------------
InitUnpack == UnpackInit /\ ClinicIdle /\ ParseIdle /\ CallingIdle /\ IterIdle

InitClinic == UnpackIdle /\ ClinicInit /\ ParseIdle /\ CallingIdle /\ IterIdle

InitParse == UnpackIdle /\ ClinicIdle /\ ParseInit /\ CallingIdle /\ IterIdle

InitCalling == UnpackIdle /\ ClinicIdle /\ ParseIdle /\ CallingInit /\ IterIdle

InitIter == UnpackIdle /\ ClinicIdle /\ ParseIdle /\ CallingIdle /\ IterInit

SpecUnpack == InitUnpack /\ [][UnpackNext]_vars

SpecClinic == InitClinic /\ [][ClinicNext]_vars

SpecParse == InitParse /\ [][ParseNext]_vars

SpecCalling == InitCalling /\ [][CallingNext]_vars

\* The evaluation is single-threaded and synchronous: a call that can take a
\* step takes it.
SpecCallingFair == SpecCalling /\ WF_vars(CallingNext)

SpecIter == InitIter /\ [][IterNext]_vars

SpecIterFair == SpecIter /\ WF_vars(IterNext)

====
